---- MODULE Spec2Model ----
(***************************************************************************)
(* RoomViewModel (src/domain/session/room/RoomViewModel.js): the lifecycle *)
(* of the call / timeline sub-view-models, the deferred unread-clear timer *)
(* and the send commands.                                                  *)
(*                                                                         *)
(* JavaScript is single threaded: a synchronous handler is one action, an  *)
(* async function is cut at each await whose completion is decided by the  *)
(* outside (openTimeline, the timer, clearUnread).  A continuation that is *)
(* resumed by a promise runs to its next await within the same action.     *)
(*                                                                         *)
(* trace is the list of externally visible effects of the handler that ran *)
(* last, in program order; it is rewritten by every action.                *)
(***************************************************************************)
EXTENDS Integers, Sequences, FiniteSets, TLC

VARIABLES
    calls,              \* session.callHandler.calls: key -> call
    pickKey,            \* PickMapObservableValue: the picked key, 0 = none
    callSubscribed,     \* the _callObservable subscription is registered
    callViewModel,      \* this._callViewModel: id of its call, 0 = null/undefined
    liveCallVMs,        \* CallViewModels constructed and not yet disposed
    disposables,        \* ViewModel's tracked disposables, in tracking order
    isDisposed,         \* the ViewModel base has been disposed
    disposeCalls,       \* number of dispose() calls made so far
    isArchived,         \* this._room.isArchived
    roomListening,      \* _onRoomChange is registered on room "change"
    loadsStarted,       \* number of load() calls made so far
    loadsInFlight,      \* load() calls suspended in await openTimeline()
    timelineVMs,        \* every TimelineViewModel constructed: times disposed
    timelineVM,         \* this._timelineVM: index into timelineVMs, 0 = null
    timeouts,           \* every Timeout created by clock.createTimeout
    clearUnreadTimout,  \* this._clearUnreadTimout: index into timeouts, 0 = null
    errorViewModel,     \* last error handed to reportError, "" = none
    focusCalled,        \* focus() has been called
    trace               \* effects of the last handler

vars == <<calls, pickKey, callSubscribed, callViewModel, liveCallVMs, disposables,
          isDisposed, disposeCalls, isArchived, roomListening, loadsStarted,
          loadsInFlight, timelineVMs, timelineVM, timeouts, clearUnreadTimout,
          errorViewModel, focusCalled, trace>>

----------------------------------------------------------------------------
(* Bounds *)
MaxCalls == 2       \* keys of the call collection are 1..MaxCalls
MaxLoads == 2       \* load() calls
MaxTimeouts == 3    \* timeouts created
MaxDisposes == 2    \* dispose() calls

(* Program constants *)
UnreadDelay == 2000

Keys == 1..MaxCalls
RoomId == "room"                    \* this._room.id
RoomIds == {"room", "other"}
Call(k, r, j) == [id |-> k, roomId |-> r, hasJoined |-> j]
CallsOfKey(k) == {Call(k, r, j) : r \in RoomIds, j \in BOOLEAN}

Fx(op, arg) == [op |-> op, arg |-> arg]
Ops(t) == {t[i].op : i \in 1..Len(t)}
Count(t, op) == Cardinality({i \in 1..Len(t) : t[i].op = op})
MinOf(S) == CHOOSE m \in S : \A n \in S : m <= n

----------------------------------------------------------------------------
(* Call arbitration *)

\* the filter predicate handed to calls.filterValues
CallFilter(c) == c.roomId = RoomId /\ c.hasJoined

\* keys of the filtered map
FilteredKeys(cs) == {k \in DOMAIN cs : CallFilter(cs[k])}

\* PickMapObservableValue on an insert into the filtered map
PickOnAdd(pick, k) == IF pick = 0 \/ k < pick THEN k ELSE pick

\* PickMapObservableValue on a removal from the filtered map (fk: keys left)
PickOnRemove(pick, k, fk) ==
    IF k = pick THEN (IF fk = {} THEN 0 ELSE MinOf(fk)) ELSE pick

\* PickMapObservableValue when first subscribed / get()
PickInitial(cs) == IF FilteredKeys(cs) = {} THEN 0 ELSE MinOf(FilteredKeys(cs))

\* ViewModel.disposeTracked on the CallViewModel held in s.cvm; yields null
DisposeTrackedCall(s) ==
    IF s.cvm = 0 THEN s
    ELSE [s EXCEPT !.cvm = 0,
                   !.disp = SelectSeq(@, LAMBDA d : d # Fx("call", s.cvm)),
                   !.live = @ - 1,
                   !.fx = Append(@, Fx("disposeCallViewModel", s.live - 1))]

\* this.track(new CallViewModel({call, room}))
TrackNewCall(s, call) ==
    [s EXCEPT !.cvm = call,
              !.disp = Append(@, Fx("call", call)),
              !.live = @ + 1,
              !.fx = Append(@, Fx("newCallViewModel", s.live + 1))]

EmitCallChange(s) == [s EXCEPT !.fx = Append(@, Fx("emitChange:callViewModel", 0))]

\* OnCallPicked keeping the held CallViewModel whenever a call is picked,
\* whatever its id
OnCallPickedKeepsAny(s, call) ==
    IF call # 0 /\ s.cvm # 0
    THEN s
    ELSE LET d == DisposeTrackedCall(s)
             n == IF call # 0 THEN TrackNewCall(d, call) ELSE d
         IN  EmitCallChange(n)

\* OnCallPicked dropping the held CallViewModel without disposing it
OnCallPickedNoDispose(s, call) ==
    IF call # 0 /\ s.cvm # 0 /\ call = s.cvm
    THEN s
    ELSE LET d == [s EXCEPT !.cvm = 0]
             n == IF call # 0 THEN TrackNewCall(d, call) ELSE d
         IN  EmitCallChange(n)

\* OnCallPicked without the early return on an unchanged call id
OnCallPickedAlways(s, call) ==
    LET d == DisposeTrackedCall(s)
        n == IF call # 0 THEN TrackNewCall(d, call) ELSE d
    IN  EmitCallChange(n)

\* the callback subscribed to _callObservable; call = 0 stands for undefined
OnCallPicked(s, call) ==
    IF call # 0 /\ s.cvm # 0 /\ call = s.cvm
    THEN s
    ELSE LET d == DisposeTrackedCall(s)
             n == IF call # 0 THEN TrackNewCall(d, call) ELSE d
         IN  EmitCallChange(n)

\* the state the handlers of the call observable work on
CallState == [cvm |-> callViewModel, disp |-> disposables, live |-> liveCallVMs,
              fx |-> <<>>]

\* deliver a notification of the call observable
Notify(call) ==
    LET s == OnCallPicked(CallState, call)
    IN  /\ callViewModel' = s.cvm
        /\ disposables' = s.disp
        /\ liveCallVMs' = s.live
        /\ trace' = <<Fx("notify", call)>> \o s.fx

NoNotify ==
    /\ UNCHANGED <<callViewModel, disposables, liveCallVMs>>
    /\ trace' = <<>>

\* the filtered map gained key k
FilteredAdd(k) ==
    /\ pickKey' = PickOnAdd(pickKey, k)
    /\ IF pickKey' # pickKey THEN Notify(pickKey') ELSE NoNotify

\* the filtered map lost key k
FilteredRemove(k, cs) ==
    /\ pickKey' = PickOnRemove(pickKey, k, FilteredKeys(cs))
    /\ IF k = pickKey THEN Notify(pickKey') ELSE NoNotify

\* the value of key k of the filtered map was updated
FilteredUpdate(k) ==
    /\ pickKey' = pickKey
    /\ Notify(pickKey)

Unobserved ==
    /\ pickKey' = pickKey
    /\ NoNotify

OtherThanCalls == <<callSubscribed, isDisposed, disposeCalls, isArchived,
                    roomListening, loadsStarted, loadsInFlight, timelineVMs,
                    timelineVM, timeouts, clearUnreadTimout, errorViewModel,
                    focusCalled>>

InsertCall(k, c) ==
    /\ k \notin DOMAIN calls
    /\ calls' = [x \in DOMAIN calls \cup {k} |-> IF x = k THEN c ELSE calls[x]]
    /\ IF callSubscribed /\ CallFilter(c) THEN FilteredAdd(k) ELSE Unobserved
    /\ UNCHANGED OtherThanCalls

RemoveCall(k) ==
    /\ k \in DOMAIN calls
    /\ calls' = [x \in DOMAIN calls \ {k} |-> calls[x]]
    /\ IF callSubscribed /\ CallFilter(calls[k])
       THEN FilteredRemove(k, calls') ELSE Unobserved
    /\ UNCHANGED OtherThanCalls

UpdateCall(k, c) ==
    /\ k \in DOMAIN calls
    /\ calls' = [calls EXCEPT ![k] = c]
    /\ IF ~callSubscribed THEN Unobserved
       ELSE IF CallFilter(calls[k]) /\ CallFilter(c) THEN FilteredUpdate(k)
       ELSE IF CallFilter(calls[k]) THEN FilteredRemove(k, calls')
       ELSE IF CallFilter(c) THEN FilteredAdd(k)
       ELSE Unobserved
    /\ UNCHANGED OtherThanCalls

----------------------------------------------------------------------------
(* Deferred unread-clear *)

\* clock.createTimeout(ms): a pending timeout whose creator awaits elapsed()
NewTimeout(ms) == [ms |-> ms, state |-> "pending", cont |-> "awaitElapsed",
                   clears |-> 0]

\* Timeout.abort(): a pending timeout becomes aborted, otherwise nothing changes
TimeoutAbort(t) == [t EXCEPT !.state = IF @ = "pending" THEN "aborted" ELSE @]

\* AfterCatch rethrowing whatever it caught
AfterCatchRethrows(errName) == "threw"

\* the catch block of _clearUnreadAfterDelay: where the async function ends
AfterCatch(errName) == IF errName # "AbortError" THEN "threw" ELSE "returned"

\* the state _clearUnreadAfterDelay works on
TimerState(fx) == [tos |-> timeouts, ref |-> clearUnreadTimout, fx |-> fx]

\* _clearUnreadAfterDelay without the look at room.isArchived
ClearUnreadAfterDelayAnyRoom(t) ==
    IF t.ref # 0
    THEN t
    ELSE [t EXCEPT !.tos = Append(@, NewTimeout(UnreadDelay)),
                   !.ref = Len(t.tos) + 1,
                   !.fx = Append(@, Fx("createTimeout", UnreadDelay))]

\* _clearUnreadAfterDelay up to its first await
ClearUnreadAfterDelay(t) ==
    IF isArchived \/ t.ref # 0
    THEN t
    ELSE [t EXCEPT !.tos = Append(@, NewTimeout(UnreadDelay)),
                   !.ref = Len(t.tos) + 1,
                   !.fx = Append(@, Fx("createTimeout", UnreadDelay))]

\* the bound on created timeouts: the handler may run if it creates none or
\* there is room for one more
RoomForTimeout == isArchived \/ clearUnreadTimout # 0 \/ Len(timeouts) < MaxTimeouts

SetTimer(t) ==
    /\ timeouts' = t.tos
    /\ clearUnreadTimout' = t.ref
    /\ trace' = t.fx

CallVars == <<calls, pickKey, callSubscribed, callViewModel, liveCallVMs>>

\* focus(): the call itself, then what _clearUnreadAfterDelay does
Focus ==
    /\ RoomForTimeout
    /\ SetTimer(ClearUnreadAfterDelay(TimerState(<<Fx("focus", 0)>>)))
    /\ focusCalled' = TRUE
    /\ UNCHANGED <<CallVars, disposables, isDisposed, disposeCalls, isArchived,
                   roomListening, loadsStarted, loadsInFlight, timelineVMs,
                   timelineVM, errorViewModel>>

\* the timer of timeout i fires: elapsed() resolves and _clearUnreadAfterDelay
\* goes on to call room.clearUnread()
TimerElapses(i) ==
    /\ timeouts[i].state = "pending"
    /\ timeouts' = [timeouts EXCEPT ![i].state = "elapsed",
                                    ![i].clears = @ + 1,
                                    ![i].cont = "awaitClearUnread"]
    /\ trace' = <<Fx("room.clearUnread", i)>>
    /\ UNCHANGED <<CallVars, focusCalled, disposables, isDisposed, disposeCalls, isArchived,
                   roomListening, loadsStarted, loadsInFlight, timelineVMs,
                   timelineVM, clearUnreadTimout, errorViewModel>>

\* room.clearUnread() of timeout i resolves
ClearUnreadResolves(i) ==
    /\ timeouts[i].cont = "awaitClearUnread"
    /\ timeouts' = [timeouts EXCEPT ![i].cont = "returned"]
    /\ clearUnreadTimout' = 0
    /\ trace' = <<>>
    /\ UNCHANGED <<CallVars, focusCalled, disposables, isDisposed, disposeCalls, isArchived,
                   roomListening, loadsStarted, loadsInFlight, timelineVMs,
                   timelineVM, errorViewModel>>

ErrorNames == {"AbortError", "Error"}

\* room.clearUnread() of timeout i rejects with an error of the given name
ClearUnreadRejects(i, errName) ==
    /\ timeouts[i].cont = "awaitClearUnread"
    /\ timeouts' = [timeouts EXCEPT ![i].cont = AfterCatch(errName)]
    /\ trace' = <<>>
    /\ UNCHANGED <<CallVars, focusCalled, disposables, isDisposed, disposeCalls, isArchived,
                   roomListening, loadsStarted, loadsInFlight, timelineVMs,
                   timelineVM, clearUnreadTimout, errorViewModel>>

----------------------------------------------------------------------------
(* load *)

\* load() scheduling the unread-clear before it awaits openTimeline()
LoadSchedulesFirst ==
    /\ loadsStarted < MaxLoads
    /\ RoomForTimeout
    /\ loadsStarted' = loadsStarted + 1
    /\ loadsInFlight' = loadsInFlight + 1
    /\ roomListening' = TRUE
    /\ SetTimer(ClearUnreadAfterDelay(TimerState(<<Fx("room.on", 0)>>)))
    /\ UNCHANGED <<CallVars, focusCalled, disposables, isDisposed, disposeCalls, isArchived,
                   timelineVMs, timelineVM, errorViewModel>>

\* load() up to await openTimeline()
Load ==
    /\ loadsStarted < MaxLoads
    /\ loadsStarted' = loadsStarted + 1
    /\ loadsInFlight' = loadsInFlight + 1
    /\ roomListening' = TRUE
    /\ trace' = <<Fx("room.on", 0)>>
    /\ UNCHANGED <<CallVars, focusCalled, disposables, isDisposed, disposeCalls, isArchived,
                   timelineVMs, timelineVM, timeouts, clearUnreadTimout,
                   errorViewModel>>

\* ViewModel.track of a new TimelineViewModel.  Tracking on a disposed
\* ViewModel is left undefined by the base type: the new child is either
\* disposed on the spot (adopted = FALSE) or kept (adopted = TRUE).
TrackNewTimeline(adopted) ==
    /\ timelineVMs' = Append(timelineVMs, IF adopted THEN 0 ELSE 1)
    /\ disposables' = IF adopted
                      THEN Append(disposables, Fx("timeline", Len(timelineVMs) + 1))
                      ELSE disposables

\* openTimeline() resolves: the try block of load() and what follows it
OpenTimelineResolves(adopted) ==
    /\ loadsInFlight > 0
    /\ RoomForTimeout
    /\ adopted = TRUE \/ isDisposed
    /\ loadsInFlight' = loadsInFlight - 1
    /\ TrackNewTimeline(adopted)
    /\ timelineVM' = Len(timelineVMs) + 1
    /\ SetTimer(ClearUnreadAfterDelay(TimerState(
            <<Fx("newTimelineViewModel", Len(timelineVMs) + 1),
              Fx("emitChange:timelineViewModel", 0)>>)))
    /\ UNCHANGED <<CallVars, focusCalled, isDisposed, disposeCalls, isArchived, roomListening,
                   loadsStarted, errorViewModel>>

\* ErrorReportViewModel.reportError
ReportError(what) == errorViewModel' = what

\* OpenTimelineRejects also dropping the call view model
OpenTimelineRejectsDropsCall ==
    /\ loadsInFlight > 0
    /\ RoomForTimeout
    /\ loadsInFlight' = loadsInFlight - 1
    /\ ReportError("openTimeline")
    /\ SetTimer(ClearUnreadAfterDelay(TimerState(<<Fx("reportError", 0)>>)))
    /\ callViewModel' = 0
    /\ UNCHANGED <<calls, pickKey, callSubscribed, liveCallVMs, focusCalled,
                   disposables, isDisposed, disposeCalls, isArchived,
                   roomListening, loadsStarted, timelineVMs, timelineVM>>

\* openTimeline() rejects: the catch block of load() and what follows it
OpenTimelineRejects ==
    /\ loadsInFlight > 0
    /\ RoomForTimeout
    /\ loadsInFlight' = loadsInFlight - 1
    /\ ReportError("openTimeline")
    /\ SetTimer(ClearUnreadAfterDelay(TimerState(<<Fx("reportError", 0)>>)))
    /\ UNCHANGED <<CallVars, focusCalled, disposables, isDisposed, disposeCalls, isArchived,
                   roomListening, loadsStarted, timelineVMs, timelineVM>>

----------------------------------------------------------------------------
(* dispose *)

RECURSIVE DisposeAll(_, _)
\* Disposables.dispose: every tracked child, last tracked first
DisposeAll(s, n) ==
    IF n = 0 THEN [s EXCEPT !.disp = <<>>]
    ELSE LET d == s.disp[n]
             s1 == IF d.op = "call"
                   THEN [s EXCEPT !.live = @ - 1,
                                  !.fx = Append(@, Fx("disposeCallViewModel", s.live - 1))]
                   ELSE IF d.op = "timeline"
                   THEN [s EXCEPT !.tvms[d.arg] = @ + 1,
                                  !.fx = Append(@, Fx("disposeTimelineViewModel", d.arg))]
                   ELSE IF d.op = "composer"
                   THEN [s EXCEPT !.fx = Append(@, Fx("disposeComposerViewModel", 0))]
                   ELSE [s EXCEPT !.sub = FALSE,
                                  !.fx = Append(@, Fx("unsubscribeCalls", 0))]
         IN  DisposeAll(s1, n - 1)

\* ViewModel.dispose (super.dispose()): a second call finds nothing to do
SuperDispose(s) == IF isDisposed THEN s ELSE DisposeAll(s, Len(s.disp))

\* the if (this._clearUnreadTimout) block of dispose()
AbortClearUnread(t) ==
    IF t.ref # 0
    THEN [t EXCEPT !.tos[t.ref] =
                       LET a == TimeoutAbort(@)
                       IN  IF @.state = "pending"
                           THEN [a EXCEPT !.cont = AfterCatch("AbortError")]
                           ELSE a,
                   !.ref = 0,
                   !.fx = Append(@, Fx("timeout.abort", t.ref))]
    ELSE t

\* room.off("change") and room.release() of dispose()
RoomTeardown(fx) ==
    LET off == Append(fx, Fx("room.off", 0))
    IN  IF isArchived THEN Append(off, Fx("room.release", 0)) ELSE off

Dispose ==
    /\ disposeCalls < MaxDisposes
    /\ disposeCalls' = disposeCalls + 1
    /\ LET s == SuperDispose([disp |-> disposables, live |-> liveCallVMs,
                              tvms |-> timelineVMs, sub |-> callSubscribed,
                              fx |-> <<>>])
           t == AbortClearUnread(TimerState(RoomTeardown(s.fx)))
       IN  /\ disposables' = s.disp
           /\ liveCallVMs' = s.live
           /\ timelineVMs' = s.tvms
           /\ callSubscribed' = s.sub
           /\ SetTimer(t)
    /\ isDisposed' = TRUE
    /\ roomListening' = FALSE
    /\ UNCHANGED <<calls, pickKey, callViewModel, isArchived, focusCalled, loadsStarted,
                   loadsInFlight, timelineVM, errorViewModel>>

----------------------------------------------------------------------------
(* room change *)

\* _onRoomChange without the composer's emitChange
OnRoomChangeOwnOnly == <<Fx("emitChange", 0)>>

\* _onRoomChange
OnRoomChange == <<Fx("composer.emitChange", 0), Fx("emitChange", 0)>>

\* the room emits "change"
RoomChange ==
    /\ trace' = <<Fx("room:change", 0)>> \o (IF roomListening THEN OnRoomChange ELSE <<>>)
    /\ UNCHANGED <<CallVars, focusCalled, disposables, isDisposed, disposeCalls, isArchived,
                   roomListening, loadsStarted, loadsInFlight, timelineVMs,
                   timelineVM, timeouts, clearUnreadTimout, errorViewModel>>

----------------------------------------------------------------------------
(* send message *)

\* a message is the sequence of its characters
MePrefix == <<"/", "m", "e", " ">>
Messages == { <<>>, <<"h", "i">>, MePrefix \o <<"h", "i", " ">>, MePrefix,
              <<"/", "m", "e">> }

\* String.prototype.startsWith
StartsWith(m, p) == Len(m) >= Len(p) /\ SubSeq(m, 1, Len(p)) = p

\* String.prototype.substr(n): from the 0-based position n to the end
Substr(m, n) == SubSeq(m, n + 1, Len(m))

RECURSIVE TrimStart(_)
TrimStart(m) == IF m # <<>> /\ Head(m) = " " THEN TrimStart(Tail(m)) ELSE m

RECURSIVE TrimEnd(_)
TrimEnd(m) ==
    IF m # <<>> /\ m[Len(m)] = " " THEN TrimEnd(SubSeq(m, 1, Len(m) - 1)) ELSE m

\* String.prototype.trim
Trim(m) == TrimEnd(TrimStart(m))

\* SendMessageBody checking the message only, not the room
SendMessageBodyWhenArchived(message, replyingTo, sent) ==
    IF message # <<>>
    THEN LET me == StartsWith(message, MePrefix)
             body == IF me THEN Trim(Substr(message, 4)) ELSE message
             msgtype == IF me THEN "m.emote" ELSE "m.text"
             send == IF replyingTo
                     THEN Fx("replyingTo.reply:" \o msgtype, Len(body))
                     ELSE Fx("room.sendEvent:" \o msgtype, Len(body))
         IN  IF sent
             THEN <<send, Fx("return", 1)>>
             ELSE <<send, Fx("reportError", 0), Fx("return", 0)>>
    ELSE <<Fx("return", 0)>>

\* the body of _sendMessage(message, replyingTo); sent tells whether reply /
\* sendEvent resolves.  The effects end with the value the promise resolves to
\* (1 = true, 0 = false); the argument of a send effect is the body's length.
SendMessageBody(message, replyingTo, sent) ==
    IF ~isArchived /\ message # <<>>
    THEN LET me == StartsWith(message, MePrefix)
             body == IF me THEN Trim(Substr(message, 4)) ELSE message
             msgtype == IF me THEN "m.emote" ELSE "m.text"
             send == IF replyingTo
                     THEN Fx("replyingTo.reply:" \o msgtype, Len(body))
                     ELSE Fx("room.sendEvent:" \o msgtype, Len(body))
         IN  IF sent
             THEN <<send, Fx("return", 1)>>
             ELSE <<send, Fx("reportError", 0), Fx("return", 0)>>
    ELSE <<Fx("return", 0)>>

\* a call of _sendMessage: the call itself (with the message's length), then
\* the effects of its body
SendMessageFx(message, replyingTo, sent) ==
    <<Fx("_sendMessage", Len(message))>> \o SendMessageBody(message, replyingTo, sent)

\* the command has no state of its own across its await: one action
SendMessage(message, replyingTo, sent) ==
    /\ trace' = SendMessageFx(message, replyingTo, sent)
    /\ errorViewModel' = IF "reportError" \in Ops(trace')
                         THEN "send" ELSE errorViewModel
    /\ UNCHANGED <<CallVars, focusCalled, disposables, isDisposed, disposeCalls, isArchived,
                   roomListening, loadsStarted, loadsInFlight, timelineVMs,
                   timelineVM, timeouts, clearUnreadTimout>>

----------------------------------------------------------------------------
(* send file, picture, video *)

\* what an async command hands to its caller: the value undefined, or a
\* rejected promise
ReturnsUndefined == <<Fx("return:undefined", 0)>>
Rejects == <<Fx("reject", 0)>>

\* _sendFile(file): sent tells whether createAttachment / sendEvent succeed;
\* nothing in it catches, so a failure rejects its promise
SendFileFx(sent) ==
    IF sent
    THEN <<Fx("room.sendEvent:m.file", 1)>> \o ReturnsUndefined
    ELSE <<Fx("room.sendEvent:m.file", 0)>> \o Rejects

FileOutcomes == {"fail", "none", "file"}

\* _pickAndSendFile: file is the outcome of platform.openFile().  The promise
\* of _sendFile is returned without await, so the try block is left before it
\* settles and its rejection goes to the caller.
PickAndSendFileFx(file, sent) ==
    <<Fx("_pickAndSendFile", 0)>> \o
    (IF file = "fail"
     THEN <<Fx("platform.openFile", 0), Fx("console.error", 0)>> \o ReturnsUndefined
     ELSE IF file = "none"
     THEN <<Fx("platform.openFile", 1)>> \o ReturnsUndefined
     ELSE <<Fx("platform.openFile", 1)>> \o SendFileFx(sent))

\* the awaited steps of _pickAndSendPicture / _pickAndSendVideo once a file of
\* the wanted type was picked; large: the image is scaled down or gets a
\* thumbnail (a video always gets one)
MediaSteps(kind, large) ==
    IF kind = "video"
    THEN <<"platform.loadVideo", "settingsStorage.getInt", "video.scale",
           "room.sendEvent:m.video">>
    ELSE IF large
    THEN <<"platform.loadImage", "settingsStorage.getInt", "image.scale",
           "room.sendEvent:m.image">>
    ELSE <<"platform.loadImage", "settingsStorage.getInt", "room.sendEvent:m.image">>

\* the steps run inside the try block; step failAt fails (0: none does) and
\* the catch block hands the error to reportError
TrySteps(steps, failAt) ==
    IF failAt = 0
    THEN [i \in 1..Len(steps) |-> Fx(steps[i], 1)] \o ReturnsUndefined
    ELSE [i \in 1..failAt |-> Fx(steps[i], IF i = failAt THEN 0 ELSE 1)]
         \o <<Fx("reportError", 0)>> \o ReturnsUndefined

MediaOutcomes == {"fail", "none", "other", "media"}

\* _pickAndSendPicture (kind = "image") and _pickAndSendVideo (kind = "video")
PickAndSendMediaFx(kind, permitted, file, large, failAt, sent) ==
    <<Fx(IF kind = "video" THEN "_pickAndSendVideo" ELSE "_pickAndSendPicture", 0)>> \o
    (IF ~permitted
     THEN <<Fx("alert", 0)>> \o ReturnsUndefined
     ELSE IF file = "fail"
     THEN <<Fx("platform.openFile", 0), Fx("reportError", 0)>> \o ReturnsUndefined
     ELSE IF file = "none"
     THEN <<Fx("platform.openFile", 1)>> \o ReturnsUndefined
     ELSE IF file = "other"
     THEN <<Fx("platform.openFile", 1)>> \o SendFileFx(sent)
     ELSE <<Fx("platform.openFile", 1)>> \o TrySteps(MediaSteps(kind, large), failAt))

\* the effects fx of a command: no state of the view model but the reported
\* error changes
Command(fx) ==
    /\ trace' = fx
    /\ errorViewModel' = IF "reportError" \in Ops(fx) THEN "send" ELSE errorViewModel
    /\ UNCHANGED <<CallVars, focusCalled, disposables, isDisposed, disposeCalls, isArchived,
                   roomListening, loadsStarted, loadsInFlight, timelineVMs,
                   timelineVM, timeouts, clearUnreadTimout>>

PickAndSendFile(file, sent) == Command(PickAndSendFileFx(file, sent))

PickAndSendMedia(kind, permitted, file, large, failAt, sent) ==
    /\ failAt <= Len(MediaSteps(kind, large))
    /\ Command(PickAndSendMediaFx(kind, permitted, file, large, failAt, sent))

----------------------------------------------------------------------------
(* start call *)

CallSteps == <<"mediaDevices.getMediaTracks", "callHandler.createCall", "call.join">>

\* StartCallFx going on to createCall after the media failure was reported
StartCallFxNoReturn(failAt) ==
    <<Fx("startCall", 0)>> \o
    (IF failAt = 1
     THEN <<Fx(CallSteps[1], 0), Fx("reportError", 1), Fx(CallSteps[2], 1),
            Fx(CallSteps[3], 1)>> \o ReturnsUndefined
     ELSE <<Fx(CallSteps[1], 1)>> \o
          (IF failAt = 2
           THEN <<Fx(CallSteps[2], 0), Fx("reportError", 2)>> \o ReturnsUndefined
           ELSE <<Fx(CallSteps[2], 1)>> \o
                (IF failAt = 3
                 THEN <<Fx(CallSteps[3], 0), Fx("reportError", 3)>> \o ReturnsUndefined
                 ELSE <<Fx(CallSteps[3], 1)>> \o ReturnsUndefined)))

\* startCall(): step failAt fails (0: none does).  Each step has its own try
\* block, whose catch reports the error with the message of that step (the
\* argument of reportError) and returns.  The call that createCall adds to
\* session.callHandler.calls, and its joining, reach the view model as call
\* events.
StartCallFx(failAt) ==
    <<Fx("startCall", 0)>> \o
    (IF failAt = 1
     THEN <<Fx(CallSteps[1], 0), Fx("reportError", 1)>> \o ReturnsUndefined
     ELSE <<Fx(CallSteps[1], 1)>> \o
          (IF failAt = 2
           THEN <<Fx(CallSteps[2], 0), Fx("reportError", 2)>> \o ReturnsUndefined
           ELSE <<Fx(CallSteps[2], 1)>> \o
                (IF failAt = 3
                 THEN <<Fx(CallSteps[3], 0), Fx("reportError", 3)>> \o ReturnsUndefined
                 ELSE <<Fx(CallSteps[3], 1)>> \o ReturnsUndefined)))

StartCall(failAt) == Command(StartCallFx(failAt))

----------------------------------------------------------------------------
(* construction and the specification *)

\* _setupCallViewModel as run by the constructor, over the calls cs.  The
\* constructor tracks nothing before it: the composer sub-view-model it creates
\* (ComposerViewModel or ArchivedViewModel) is assigned without this.track.
SetupCallViewModel(cs) ==
    LET s == [cvm |-> 0, disp |-> <<Fx("callSub", 0)>>, live |-> 0, fx |-> <<>>]
        call == PickInitial(cs)
    IN  IF call # 0 THEN TrackNewCall(s, call) ELSE s

CallMaps == UNION {{f \in [S -> UNION {CallsOfKey(k) : k \in S}] :
                        \A k \in S : f[k].id = k} : S \in SUBSET Keys}

\* the state right after the constructor, over the calls cs of the session
Constructed(cs) ==
    /\ calls = cs
    /\ pickKey = PickInitial(cs)
    /\ callSubscribed = TRUE
    /\ callViewModel = SetupCallViewModel(cs).cvm
    /\ disposables = SetupCallViewModel(cs).disp
    /\ liveCallVMs = SetupCallViewModel(cs).live
    /\ isDisposed = FALSE
    /\ disposeCalls = 0
    /\ roomListening = FALSE
    /\ loadsStarted = 0
    /\ loadsInFlight = 0
    /\ timelineVMs = <<>>
    /\ timelineVM = 0
    /\ timeouts = <<>>
    /\ clearUnreadTimout = 0
    /\ errorViewModel = ""
    /\ focusCalled = FALSE
    /\ trace = <<>>

Init ==
    /\ isArchived \in BOOLEAN
    /\ \E cs \in CallMaps : Constructed(cs)

CallEvent ==
    \/ \E k \in Keys : \E c \in CallsOfKey(k) : InsertCall(k, c)
    \/ \E k \in Keys : RemoveCall(k)
    \/ \E k \in Keys : \E c \in CallsOfKey(k) : UpdateCall(k, c)

LoadStep ==
    \/ Load
    \/ \E adopted \in BOOLEAN : OpenTimelineResolves(adopted)
    \/ OpenTimelineRejects

TimerStep ==
    \/ \E i \in 1..Len(timeouts) : TimerElapses(i)
    \/ \E i \in 1..Len(timeouts) : ClearUnreadResolves(i)
    \/ \E i \in 1..Len(timeouts), e \in ErrorNames : ClearUnreadRejects(i, e)

Send == \E m \in Messages, r \in BOOLEAN, sent \in BOOLEAN : SendMessage(m, r, sent)

SendMedia ==
    \/ \E file \in FileOutcomes, sent \in BOOLEAN : PickAndSendFile(file, sent)
    \/ \E kind \in {"image", "video"}, permitted \in BOOLEAN, file \in MediaOutcomes,
          large \in BOOLEAN, failAt \in 0..4, sent \in BOOLEAN :
            PickAndSendMedia(kind, permitted, file, large, failAt, sent)

StartCalls == \E failAt \in 0..Len(CallSteps) : StartCall(failAt)

Next == CallEvent \/ LoadStep \/ Focus \/ TimerStep \/ Dispose \/ RoomChange \/ Send
            \/ SendMedia \/ StartCalls

Spec == Init /\ [][Next]_vars

\* the call arbitration: every session, call events and disposal
NextCalls == CallEvent \/ Dispose

SpecCalls == Init /\ [][NextCalls]_vars

\* the room's lifecycle: load, focus, the unread-clear timer, room changes and
\* disposal, in
\* a session without calls or with one joined call of this room
InitLife ==
    /\ isArchived \in BOOLEAN
    /\ \E cs \in {f \in CallMaps : DOMAIN f \subseteq {1} /\ \A k \in DOMAIN f : CallFilter(f[k])} :
            Constructed(cs)

NextLife == LoadStep \/ Focus \/ TimerStep \/ Dispose \/ RoomChange

SpecLife == InitLife /\ [][NextLife]_vars

\* the commands (send message, file, picture, video; start call), before and
\* after disposal
NextSend == Send \/ SendMedia \/ StartCalls \/ Dispose

SpecSend == InitLife /\ [][NextSend]_vars

\* loads next to the call arbitration and the sending of messages: every
\* session, call events, load and _sendMessage
NextLoadCalls == CallEvent \/ LoadStep \/ Send

SpecLoadCalls == Init /\ [][NextLoadCalls]_vars

TypeOK ==
    /\ pickKey \in 0..MaxCalls
    /\ callViewModel \in 0..MaxCalls
    /\ liveCallVMs \in 0..2
    /\ clearUnreadTimout \in 0..Len(timeouts)
    /\ timelineVM \in 0..Len(timelineVMs)
    /\ Len(timeouts) <= MaxTimeouts
    /\ focusCalled \in BOOLEAN

----------------------------------------------------------------------------
(* Properties *)

\* keys of the calls of this room that have been joined
JoinedHere == {k \in DOMAIN calls : calls[k].roomId = RoomId /\ calls[k].hasJoined}

\* C1: after construction and after every insert, remove or update of the call
\* collection, while the view model is not disposed, callViewModel is present
\* iff some call of this room has been joined, and it is then the view model
\* of the joined call of this room with the lowest key.
C1_CallViewModelIsLowestJoined ==
    ~isDisposed =>
        /\ callViewModel # 0 <=> JoinedHere # {}
        /\ callViewModel # 0 => callViewModel = calls[MinOf(JoinedHere)].id
        /\ liveCallVMs = (IF JoinedHere = {} THEN 0 ELSE 1)

\* a lower joined call has just replaced the picked one
C1_Witness ==
    /\ ~isDisposed
    /\ Cardinality(JoinedHere) >= 2
    /\ callViewModel = 1
    /\ "newCallViewModel" \in Ops(trace)
    /\ "disposeCallViewModel" \in Ops(trace)

\* C2: at most one CallViewModel is alive in every state and after every
\* single effect of a handler, and when a handler constructs a CallViewModel
\* after one was held, the disposal of the held one comes first.
C2_OneLiveCallViewModel ==
    /\ liveCallVMs <= 1
    /\ \A i \in 1..Len(trace) :
          /\ trace[i].op \in {"newCallViewModel", "disposeCallViewModel"}
                => trace[i].arg <= 1
          /\ trace[i].op = "newCallViewModel"
                => \A j \in 1..Len(trace) : trace[j].op = "disposeCallViewModel" => j < i

\* the picked call changed from one call to another
C2_Witness ==
    /\ liveCallVMs = 1
    /\ \E i, j \in 1..Len(trace) :
          /\ i < j
          /\ trace[i] = Fx("disposeCallViewModel", 0)
          /\ trace[j] = Fx("newCallViewModel", 1)

\* the step delivers to the callback a call with the id of the held
\* CallViewModel
SameCallNotified ==
    /\ trace' # <<>>
    /\ trace'[1].op = "notify"
    /\ trace'[1].arg # 0
    /\ callViewModel # 0
    /\ trace'[1].arg = callViewModel

\* C3: a notification with a call whose id is that of the held CallViewModel
\* changes nothing: nothing is disposed, nothing constructed, no change emitted.
C3_SameCallIsNoOp ==
    [][SameCallNotified =>
          /\ Len(trace') = 1
          /\ UNCHANGED <<callViewModel, liveCallVMs, disposables>>]_vars

\* the callback was just run with the call of the held CallViewModel
C3_Witness ==
    /\ callViewModel # 0
    /\ liveCallVMs = 1
    /\ ~isDisposed
    /\ trace = <<Fx("notify", callViewModel)>>

\* timeouts created and neither elapsed nor aborted
Pending == {i \in 1..Len(timeouts) : timeouts[i].state = "pending"}

\* TimelineViewModels constructed and not disposed
LiveTimelines == {i \in 1..Len(timelineVMs) : timelineVMs[i] = 0}

\* the first dispose() has just returned
FirstDisposeDone == disposeCalls = 1 /\ "room.off" \in Ops(trace)

\* C4: dispose() disposes the composer, the attached timeline view model and
\* the held call view model, each exactly once, and aborts the pending timeout
\* exactly once.
C4_DisposeReleasesEachOnce ==
    FirstDisposeDone =>
        /\ Count(trace, "disposeComposerViewModel") = 1
        /\ timelineVM # 0 => timelineVMs[timelineVM] = 1
        /\ callViewModel # 0 =>
              Count(trace, "disposeCallViewModel") = 1 /\ liveCallVMs = 0
        /\ Pending = {}
        /\ Count(trace, "timeout.abort") <= 1

\* C5: once dispose() has returned no timeout is pending, none is created and
\* room.clearUnread() is not invoked.
C5_NothingPendingAfterDispose ==
    isDisposed =>
        /\ Pending = {}
        /\ "createTimeout" \notin Ops(trace)
        /\ "room.clearUnread" \notin Ops(trace)

C7_OneOutstandingTimeout == Cardinality(Pending) <= 1

\* load() has just finished after openTimeline() failed
LoadFailed == trace # <<>> /\ trace[1].op = "reportError"

\* C8: after a failed openTimeline() of a non-archived room no
\* TimelineViewModel was created, the error was reported once, and the
\* unread-clear is scheduled: a timeout is pending or, its timeout having
\* elapsed, room.clearUnread() is under way.
C8_FailedLoadStillSchedules ==
    (LoadFailed /\ ~isArchived) =>
        /\ "newTimelineViewModel" \notin Ops(trace)
        /\ loadsStarted = 1 => timelineVM = 0
        /\ Count(trace, "reportError") = 1
        /\ \E i \in 1..Len(timeouts) :
              timeouts[i].state = "pending" \/ timeouts[i].cont = "awaitClearUnread"

\* C9: at most one TimelineViewModel is alive, and none is attached before an
\* openTimeline() has succeeded.
C9_OneLiveTimeline ==
    /\ Cardinality(LiveTimelines) <= 1
    /\ timelineVM # 0 => timelineVMs # <<>>

\* the step is a call of _sendMessage on an archived room or with an empty
\* message
RefusedSend ==
    /\ trace' # <<>>
    /\ trace'[1].op = "_sendMessage"
    /\ isArchived \/ trace'[1].arg = 0

\* C10: _sendMessage on an archived room, or with an empty message, returns
\* false and does nothing else: no room.sendEvent, no replyingTo.reply, no
\* reportError.
C10_RefusedSendIsSilent ==
    [][RefusedSend =>
          /\ trace' = <<trace'[1], Fx("return", 0)>>
          /\ errorViewModel' = errorViewModel]_vars

\* a non-empty message was refused on an archived room
C10_Witness ==
    /\ isArchived
    /\ Len(trace) = 2
    /\ trace[1].op = "_sendMessage"
    /\ trace[1].arg > 0
    /\ trace[2] = Fx("return", 0)

\* the send commands, and the steps of theirs that can fail
SendCommands == {"_sendMessage", "_pickAndSendFile", "_pickAndSendPicture",
                 "_pickAndSendVideo"}
FallibleSteps == {"platform.openFile", "platform.loadImage", "platform.loadVideo",
                  "settingsStorage.getInt", "image.scale", "video.scale",
                  "room.sendEvent:m.file", "room.sendEvent:m.image",
                  "room.sendEvent:m.video"}
SendEvents == {"room.sendEvent:m.text", "room.sendEvent:m.emote",
               "room.sendEvent:m.file", "room.sendEvent:m.image",
               "room.sendEvent:m.video"}

\* C11: every send command ends by returning a boolean, a failed step of it
\* is handed to reportError, and on an archived room none of them calls
\* room.sendEvent.
C11_SendCommandsReportAndReturn ==
    (trace # <<>> /\ trace[1].op \in SendCommands) =>
        /\ trace[Len(trace)].op = "return"
        /\ (\E i \in 1..Len(trace) : trace[i].op \in FallibleSteps /\ trace[i].arg = 0)
              => "reportError" \in Ops(trace)
        /\ isArchived => Ops(trace) \cap SendEvents = {}

\* the steps startCall ran, and the errors it reported, in order
StepsRun == SelectSeq(trace, LAMBDA e : e.op \in {CallSteps[k] : k \in 1..Len(CallSteps)})
Reported == SelectSeq(trace, LAMBDA e : e.op = "reportError")

\* C12: startCall() runs getMediaTracks, createCall and join in this order;
\* the first step that fails is the last one run and is reported once, with
\* the message of that step; without a failure all three run and nothing is
\* reported; startCall() never raises.
C12_StartCallStopsAtFirstFailure ==
    (trace # <<>> /\ trace[1].op = "startCall") =>
        /\ trace[Len(trace)] = Fx("return:undefined", 0)
        /\ Len(StepsRun) \in 1..Len(CallSteps)
        /\ \A k \in 1..Len(StepsRun) :
              /\ StepsRun[k].op = CallSteps[k]
              /\ StepsRun[k].arg = 0 =>
                    k = Len(StepsRun) /\ Reported = <<Fx("reportError", k)>>
        /\ (\A k \in 1..Len(StepsRun) : StepsRun[k].arg = 1) =>
              Len(StepsRun) = Len(CallSteps) /\ Reported = <<>>

\* createCall failed after the media was acquired
C12_Witness ==
    /\ trace # <<>>
    /\ trace[1].op = "startCall"
    /\ Fx("callHandler.createCall", 0) \in {trace[i] : i \in 1..Len(trace)}

\* the room has just emitted "change"
RoomChanged == trace # <<>> /\ trace[1].op = "room:change"

\* what a room change made the view models emit, in order
Emitted == [i \in 1..(Len(trace) - 1) |-> trace[i + 1].op]

FullReEmit == <<"composer.emitChange", "emitChange">>

\* C13 as stated: every room change between the creation of the view model and
\* its dispose() makes the composer emit a change and then the view model
\* emit an unparameterised change, once.
C13_EveryChangeSinceCreation ==
    (RoomChanged /\ disposeCalls = 0) => Emitted = FullReEmit

\* C13: every room change between the first call of load() and dispose()
\* makes the composer emit a change and then the view model emit an
\* unparameterised change, once; a room change before load() emits nothing.
C13_EveryChangeSinceLoad ==
    (RoomChanged /\ disposeCalls = 0) =>
        Emitted = (IF loadsStarted > 0 THEN FullReEmit ELSE <<>>)

\* the room changed while a load() was still waiting for its timeline
C13_Witness ==
    /\ RoomChanged
    /\ disposeCalls = 0
    /\ loadsInFlight > 0
    /\ Emitted = FullReEmit

\* C14: after dispose() a room change makes neither the view model nor its
\* composer emit, whatever the order of load() and dispose(); dispose() calls
\* room.release() iff the room is archived.
C14_NoReEmitAfterDispose ==
    /\ (RoomChanged /\ disposeCalls > 0) => Emitted = <<>>
    /\ "room.off" \in Ops(trace) => ("room.release" \in Ops(trace) <=> isArchived)

\* dispose() has just run
Disposing == "room.off" \in Ops(trace)

\* C15: a second dispose() has no effect: no child is disposed again, no
\* timeout is aborted and room.release() is not called again (removing the
\* room listener that is already removed is not counted as an effect).
C15_SecondDisposeIsNoOp ==
    (Disposing /\ disposeCalls >= 2) => Ops(trace) = {"room.off"}

\* timeouts that have elapsed and whose room.clearUnread() has not settled
Clearing == {i \in 1..Len(timeouts) : timeouts[i].cont = "awaitClearUnread"}

\* C16: focus() on a non-archived, non-disposed view model creates a new
\* timeout of 2000 ms when none is pending and no room.clearUnread() is under
\* way, however the previous room.clearUnread() ended; while a timeout is
\* pending it changes nothing.
C16_FocusReArms ==
    [][(trace' # <<>> /\ trace'[1].op = "focus" /\ ~isArchived /\ ~isDisposed) =>
          /\ (Pending = {} /\ Clearing = {}) =>
                /\ Len(timeouts') = Len(timeouts) + 1
                /\ timeouts'[Len(timeouts')].state = "pending"
                /\ timeouts'[Len(timeouts')].ms = UnreadDelay
          /\ Pending # {} =>
                timeouts' = timeouts /\ clearUnreadTimout' = clearUnreadTimout]_vars

\* C17: for an archived room no timeout is ever created and
\* room.clearUnread() is never called, whatever load() and focus() calls are
\* made.
C17_ArchivedNeverClearsUnread ==
    isArchived =>
        /\ timeouts = <<>>
        /\ clearUnreadTimout = 0
        /\ Ops(trace) \cap {"createTimeout", "room.clearUnread"} = {}

\* an archived room was focused and a load() of it has finished
C17_Witness ==
    /\ isArchived
    /\ focusCalled
    /\ loadsStarted > loadsInFlight
    /\ timeouts = <<>>

\* every load() that has finished so far has failed
OnlyFailedLoads == loadsStarted > loadsInFlight /\ timelineVM = 0

\* C18: the step in which openTimeline() rejects changes nothing of the call
\* arbitration or of the tracked children and disposes or creates no child;
\* after it, call events still keep callViewModel on the lowest joined call of
\* this room, and _sendMessage with a non-empty message on a non-archived room
\* still sends.
C18_FailedLoadLeavesChildren ==
    [][/\ (trace' # <<>> /\ trace'[1].op = "reportError") =>
             /\ CallVars' = CallVars
             /\ disposables' = disposables
             /\ Ops(trace') \subseteq {"reportError", "createTimeout"}
       /\ (OnlyFailedLoads' /\ ~isDisposed') =>
             /\ callViewModel' # 0 <=> JoinedHere' # {}
             /\ callViewModel' # 0 => callViewModel' = calls'[MinOf(JoinedHere')].id
             /\ liveCallVMs' = (IF JoinedHere' = {} THEN 0 ELSE 1)
       /\ (OnlyFailedLoads /\ ~isArchived /\ trace' # <<>>
              /\ trace'[1].op = "_sendMessage" /\ trace'[1].arg > 0) =>
             \E e \in {"room.sendEvent:m.text", "room.sendEvent:m.emote",
                       "replyingTo.reply:m.text", "replyingTo.reply:m.emote"} :
                 e \in Ops(trace')]_vars

\* after a failed load a joined call of this room arrived and got its view
\* model
C18_Witness ==
    /\ OnlyFailedLoads
    /\ ~isDisposed
    /\ trace # <<>>
    /\ trace[1].op = "notify"
    /\ "newCallViewModel" \in Ops(trace)

\* C19 as stated: room.clearUnread() is called only for a timeout of this
\* view model that elapsed without being aborted, at most once per timeout,
\* and never while a load() is waiting for openTimeline() unless focus() was
\* called.
C19_ClearUnreadOnlyAfterElapse ==
    /\ \A i \in 1..Len(timeouts) :
          /\ timeouts[i].clears <= 1
          /\ timeouts[i].clears = 1 => timeouts[i].state = "elapsed"
    /\ \A j \in 1..Len(trace) :
          trace[j].op = "room.clearUnread" =>
              /\ trace[j].arg \in 1..Len(timeouts)
              /\ timeouts[trace[j].arg].state = "elapsed"
              /\ loadsInFlight > 0 => focusCalled

\* C19: room.clearUnread() is called only for a timeout of this view model
\* that elapsed without being aborted, at most once per timeout, and never
\* before some load() has got past its wait for openTimeline() unless focus()
\* was called.
C19_ClearUnreadAfterLoadOrFocus ==
    /\ \A i \in 1..Len(timeouts) :
          /\ timeouts[i].clears <= 1
          /\ timeouts[i].clears = 1 => timeouts[i].state = "elapsed"
    /\ \A j \in 1..Len(trace) :
          trace[j].op = "room.clearUnread" =>
              /\ trace[j].arg \in 1..Len(timeouts)
              /\ timeouts[trace[j].arg].state = "elapsed"
              /\ loadsStarted > loadsInFlight \/ focusCalled

\* the timeout of a finished load() elapsed, without any focus(), while
\* another load() was still waiting
C19_Witness ==
    /\ "room.clearUnread" \in Ops(trace)
    /\ ~focusCalled
    /\ loadsInFlight > 0
    /\ loadsStarted > loadsInFlight

\* C20: once dispose() has returned, a change of the call collection creates
\* or disposes no CallViewModel and emits no "callViewModel" change, and no
\* TimelineViewModel is created and kept, also when openTimeline() resolves
\* after the disposal.
C20_NoChildAfterDispose ==
    (isDisposed /\ ~Disposing) =>
        /\ Ops(trace) \cap {"notify", "newCallViewModel", "disposeCallViewModel",
                            "emitChange:callViewModel"} = {}
        /\ \A j \in 1..Len(trace) :
              trace[j].op = "newTimelineViewModel" => trace[j].arg \notin LiveTimelines

====
